---- MODULE Spec2Model ----
(***************************************************************************)
(* Model of the mobile audio playback coordinator of birdnet-go:           *)
(*   - the mobileAudio store (currentlyPlayingId, isPlaying, audioElement, *)
(*     registerAudioElement, playDetection, stopPlayback,                  *)
(*     isDetectionPlaying),                                                *)
(*   - the MobileAudioPlayer component that owns the <audio> element       *)
(*     (register effect, load effect, handleCanPlay, handleEnded,          *)
(*     handleError, onDestroy),                                            *)
(*   - the dashboard rows that read the store,                             *)
(*   - the HTML media element the component drives (paused, currentTime,   *)
(*     load/play/pause, play promises, queued media events).               *)
(*                                                                         *)
(* The store functions and the component handlers are operators from a     *)
(* state record to a state record, so that a handler that calls            *)
(* stopPlayback() is one atomic action, as in the single-threaded source.  *)
(***************************************************************************)
EXTENDS Naturals, Sequences, FiniteSets

VARIABLES
    currentlyPlayingId,  \* store: selected detection id, Null = nothing selected
    isPlaying,           \* store: whether audio is actively playing
    audioElement,        \* store module: registered element reference or Null
    mounted,             \* whether the MobileAudioPlayer component is mounted
    audioRef,            \* component: bind:this reference of the <audio> element
    audio,               \* the <audio> element's own state (media element)
    dirty,               \* component: $currentlyPlayingId was written, effects not yet flushed
    rejections,          \* rejected play() promises whose catch callback has not run yet
    detached,            \* the id whose load was in flight on the <audio> element last
                         \* removed from the document (Null when there is none)
    log,                 \* what the last operation did: handle calls and callbacks, in order
    lastOp,              \* which operation ran last
    toggleRun,           \* (selection, activity) after each call of a run of
                         \* playDetection(id) calls that started in Idle
    registered,          \* the argument of the most recent registerAudioElement call
    binders,             \* several MobileAudioPlayer instances: mounted, update
                         \* pending, element rendered (one record per instance)
    elements,            \* the media state of each instance's <audio> element
    page,                \* the security settings page: the store's security section,
                         \* the page's $state cells, its timers and pending saves
    autosave,            \* a settings page with debounced auto-save: saveStatus, its
                         \* pending timers and the saveSettings calls in flight
    dashboard,           \* the dashboard: the detections list, its loading flags, the
                         \* request in flight and the backend's result set
    support,             \* the support page: the dump options, generating, the status
                         \* line, the request in flight and the pending timers
    audioSettings        \* the audio settings page: the store's export length and
                         \* preCapture

vars == <<currentlyPlayingId, isPlaying, audioElement, mounted, audioRef, audio,
          dirty, rejections, detached, log, lastOp, toggleRun,
          registered, binders, elements, page,
                   autosave, dashboard, support, audioSettings>>

-----------------------------------------------------------------------------
(* Bounds *)

NumIds == 2          \* detection ids 1..NumIds
MaxErrorCode == 5    \* media error codes 0..MaxErrorCode, 0 = no error object
MaxRun == 3          \* recorded length of a run of same-id playDetection calls

NumBinders == 2      \* component instances followed when several are mounted

NumMechs == 2        \* authentication mechanisms of the security page followed
NumHosts == 1        \* host names the user may type, besides the empty one
MaxEdits == 3        \* edits made on an auto-save page
PAGE_SIZE == 2       \* detections per page (20 in the source, scaled down)
MaxBackend == 12     \* detections in the backend's result set at mount
MaxGrow == 1         \* detections added to the result set afterwards
MaxRequests == 2     \* fetches the model lets settle out of order
MaxDumps == 2        \* support dumps requested
MaxLength == 9       \* the largest export length and preCapture, in seconds

(* Program values *)

Null == 0            \* null: no selection / no element
Elem == 1            \* the <audio> element of the mounted component
Ids == 1..NumIds

MEDIA_ERR_ABORTED == 1
MEDIA_ERR_NETWORK == 2
MEDIA_ERR_DECODE == 3
MEDIA_ERR_SRC_NOT_SUPPORTED == 4
Binders == 1..NumBinders   \* instance b renders element b; Elem is the first one's
ErrorCodes == 0..MaxErrorCode

\* The authentication mechanisms of the security section.
MechNames == <<"basicAuth", "googleAuth", "githubAuth", "allowSubnetBypass">>
Mechs == {MechNames[i] : i \in 1..NumMechs}
Hosts == 0..NumHosts       \* 0 is the empty host name

\* an audioUrl that does not depend on the id
audioUrl_Fixed(id) == IF id # Null THEN <<"/api/v2/audio/", 1>> ELSE <<>>

\* audioUrl: `/api/v2/audio/${id}` or '' when nothing is selected
audioUrl(id) == IF id # Null THEN <<"/api/v2/audio/", id>> ELSE <<>>

\* A media element that does not exist (no <audio> rendered).
NoAudio ==
    [paused |-> TRUE, currentTime |-> 0, netState |-> "empty", src |-> <<>>,
     error |-> 0, pending |-> {}, events |-> {}]

\* The program state as one record.
State ==
    [currentlyPlayingId |-> currentlyPlayingId, isPlaying |-> isPlaying,
     audioElement |-> audioElement, mounted |-> mounted, audioRef |-> audioRef,
     audio |-> audio, dirty |-> dirty, rejections |-> rejections,
     detached |-> detached, registered |-> registered, log |-> <<>>]

Commit(s) ==
    /\ currentlyPlayingId' = s.currentlyPlayingId
    /\ isPlaying' = s.isPlaying
    /\ audioElement' = s.audioElement
    /\ mounted' = s.mounted
    /\ audioRef' = s.audioRef
    /\ audio' = s.audio
    /\ dirty' = s.dirty
    /\ rejections' = s.rejections
    /\ detached' = s.detached
    /\ registered' = s.registered
    /\ log' = s.log
    /\ UNCHANGED <<binders, elements, page,
                   autosave, dashboard, support, audioSettings>>

Logged(s, k, v) == [s EXCEPT !.log = Append(@, [k |-> k, v |-> v])]

-----------------------------------------------------------------------------
(* The HTML media element: the methods the source calls on it. *)

\* el.play(): rejected at once when the browser does not allow it (autoplay
\* policy); otherwise paused becomes false and the promise stays pending.
Play(s, origin, allowed) ==
    LET s1 == Logged(s, "play", <<>>) IN
    IF ~allowed
    THEN [s1 EXCEPT !.rejections = @ \cup {origin}]
    ELSE [s1 EXCEPT !.audio.paused = FALSE, !.audio.pending = @ \cup {origin}]

\* el.pause(): pending play promises are rejected (AbortError).
Pause(s) ==
    LET s1 == Logged(s, "pause", <<>>) IN
    IF s.audio.paused THEN s1
    ELSE [s1 EXCEPT !.audio.paused = TRUE, !.audio.pending = {},
                    !.rejections = @ \cup s.audio.pending]

\* an assignment to currentTime that does not move the playback position
SeekStart_NoReset(s) == Logged(s, "seek", <<0>>)

\* el.currentTime = 0
SeekStart(s) == [Logged(s, "seek", <<0>>) EXCEPT !.audio.currentTime = 0]

\* el.load() (also run by the browser when the src attribute changes): the
\* element is reset, queued media events are dropped, pending play promises
\* are rejected, and the resource at the element's src starts loading.
Load(s) ==
    [Logged(s, "load", s.audio.src) EXCEPT
        !.audio = [paused |-> TRUE, currentTime |-> 0, netState |-> "loading",
                   src |-> s.audio.src, error |-> 0, pending |-> {}, events |-> {}],
        !.rejections = @ \cup s.audio.pending]

-----------------------------------------------------------------------------
(* The mobileAudio store *)

\* currentlyPlayingId.set(v): subscribers are notified only when the value changes
SetCurrentlyPlayingId(s, v) ==
    [s EXCEPT !.currentlyPlayingId = v,
              !.dirty = @ \/ (s.mounted /\ v # s.currentlyPlayingId)]

SetIsPlaying(s, v) == [s EXCEPT !.isPlaying = v]

\* a registerAudioElement that keeps a handle that is already held
registerAudioElement_FirstWins(s, element) ==
    IF s.audioElement = Null THEN [s EXCEPT !.audioElement = element] ELSE s

registerAudioElement(s, element) == [s EXCEPT !.audioElement = element]

\* stopPlayback that forgets isPlaying.set(false)
stopPlayback_KeepsActivity(s) ==
    LET s1 == IF s.audioElement # Null THEN SeekStart(Pause(s)) ELSE s
    IN SetCurrentlyPlayingId(s1, Null)

\* stopPlayback without the guard on the handle
stopPlayback_NoGuard(s) ==
    SetIsPlaying(SetCurrentlyPlayingId(SeekStart(Pause(s)), Null), FALSE)

stopPlayback(s) ==
    LET s1 == IF s.audioElement # Null THEN SeekStart(Pause(s)) ELSE s
    IN SetIsPlaying(SetCurrentlyPlayingId(s1, Null), FALSE)

\* playDetection that restarts the handle itself when the selection changes
playDetection_TouchesHandle(s, id, allowed) ==
    IF s.currentlyPlayingId = id /\ s.audioElement # Null
    THEN IF s.audio.paused
         THEN SetIsPlaying(Play(s, "toggle", allowed), TRUE)
         ELSE SetIsPlaying(Pause(s), FALSE)
    ELSE LET s1 == IF s.audioElement # Null THEN Pause(s) ELSE s
         IN SetIsPlaying(SetCurrentlyPlayingId(s1, id), TRUE)

\* playDetection that toggles without checking that a handle is registered
playDetection_NoHandleCheck(s, id, allowed) ==
    IF s.currentlyPlayingId = id
    THEN IF s.audio.paused
         THEN SetIsPlaying(Play(s, "toggle", allowed), TRUE)
         ELSE SetIsPlaying(Pause(s), FALSE)
    ELSE SetIsPlaying(SetCurrentlyPlayingId(s, id), TRUE)

playDetection(s, id, allowed) ==
    IF s.currentlyPlayingId = id /\ s.audioElement # Null
    THEN IF s.audio.paused
         THEN SetIsPlaying(Play(s, "toggle", allowed), TRUE)
         ELSE SetIsPlaying(Pause(s), FALSE)
    ELSE SetIsPlaying(SetCurrentlyPlayingId(s, id), TRUE)

\* isDetectionPlaying that also asks for activity
isDetectionPlaying_NeedsActivity(s, id) == s.currentlyPlayingId = id /\ s.isPlaying

\* return get(currentlyPlayingId) === id: a read of the store, no assignment
isDetectionPlaying(s, id) == s.currentlyPlayingId = id

\* a row binding that forgets to compare the row's id with the selection
RowIsPlaying_AnyRow(s, id) == s.isPlaying

\* Dashboard row: isPlaying={$currentlyPlayingId === detection.id && $isPlaying}
RowIsPlaying(s, id) == s.currentlyPlayingId = id /\ s.isPlaying

-----------------------------------------------------------------------------
(* The MobileAudioPlayer component *)

\* onError?.(msg) and onPlayEnd?.(): the parent's callbacks; the callback sees
\* the store and the element as they are when it is invoked.
onError(s, msg) == Logged(s, "onError", <<msg>>)
onPlayEnd(s) ==
    Logged(s, "onPlayEnd",
           <<s.currentlyPlayingId, s.isPlaying, s.audio.paused, s.audio.currentTime>>)

\* The {#if} block closes and the element leaves the document. A load in
\* flight goes on in the browser, and its outcome (canplay or error) may still
\* be fired at the component's handlers. Events already queued are dropped
\* with the element.
Detach(s) ==
    IF s.audioRef = Null THEN s
    ELSE [s EXCEPT !.audioRef = Null, !.audio = NoAudio,
                   !.detached = IF s.audio.netState = "loading"
                                THEN s.audio.src[2] ELSE Null]

\* a template that renders the <audio> element whether or not a clip is selected
Render_Unconditional(s) ==
    [s EXCEPT !.audioRef = Elem,
              !.audio = [(IF s.audioRef = Null THEN NoAudio ELSE @)
                            EXCEPT !.src = audioUrl(s.currentlyPlayingId)]]

\* {#if $currentlyPlayingId !== null} <audio bind:this={audioRef} src={audioUrl}>
Render(s) ==
    IF s.currentlyPlayingId # Null
    THEN [s EXCEPT !.audioRef = Elem,
                   !.audio = [(IF s.audioRef = Null THEN NoAudio ELSE @)
                                 EXCEPT !.src = audioUrl(s.currentlyPlayingId)]]
    ELSE Detach(s)

\* $effect(() => registerAudioElement(audioRef)): reruns when audioRef changed
RegisterEffect(s, changed) ==
    IF changed
    THEN [registerAudioElement(s, s.audioRef) EXCEPT !.registered = s.audioRef]
    ELSE s

\* $effect: if ($currentlyPlayingId !== null && audioRef) audioRef.load()
LoadEffect(s) ==
    IF s.currentlyPlayingId # Null /\ s.audioRef # Null THEN Load(s) ELSE s

\* The component update after $currentlyPlayingId was written: the template
\* is re-rendered, then the effects whose dependencies changed run, in order.
Flush(s) ==
    LET r == Render(s)
    IN [LoadEffect(RegisterEffect(r, r.audioRef # s.audioRef)) EXCEPT !.dirty = FALSE]

\* Mounting renders the template and runs both effects for the first time.
Mount(s) ==
    LET r == Render([s EXCEPT !.mounted = TRUE])
    IN [LoadEffect(RegisterEffect(r, TRUE)) EXCEPT !.dirty = FALSE]

\* an onDestroy that also stops playback
onDestroy_StopsPlayback(s) ==
    [stopPlayback(registerAudioElement(s, Null)) EXCEPT
        !.registered = Null, !.mounted = FALSE, !.audioRef = Null, !.audio = NoAudio, !.dirty = FALSE,
        !.detached = Null,
        !.rejections = @ \cup s.audio.pending]

\* onDestroy(() => registerAudioElement(null)); the element leaves the document,
\* which pauses it.
onDestroy(s) ==
    [registerAudioElement(s, Null) EXCEPT
        !.registered = Null, !.mounted = FALSE, !.audioRef = Null, !.audio = NoAudio, !.dirty = FALSE,
        !.detached = Null,
        !.rejections = @ \cup s.audio.pending]

\* handleCanPlay without its guard on the element and the selection
handleCanPlay_Unguarded(s, allowed) == Play(s, "canplay", allowed)

handleCanPlay(s, allowed) ==
    IF s.audioRef # Null /\ s.currentlyPlayingId # Null
    THEN Play(s, "canplay", allowed)
    ELSE s

\* .catch of the play() issued by handleCanPlay
catchCanPlay(s) == onError(s, "Failed to play audio")

\* .catch of the play() issued by playDetection: logger.error only
catchToggle(s) == s

\* handleEnded that notifies the parent before it stops playback
handleEnded_CallbackFirst(s) == stopPlayback(onPlayEnd(s))

handleEnded(s) == onPlayEnd(stopPlayback(s))

\* errorMessage with the decode case falling through to the next case
errorMessage_DecodeFallsThrough(code) ==
    CASE code = MEDIA_ERR_ABORTED -> "Playback aborted"
      [] code = MEDIA_ERR_NETWORK -> "Network error"
      [] code = MEDIA_ERR_DECODE -> "Audio not available"
      [] code = MEDIA_ERR_SRC_NOT_SUPPORTED -> "Audio not available"
      [] OTHER -> "Failed to load audio"

errorMessage(code) ==
    CASE code = MEDIA_ERR_ABORTED -> "Playback aborted"
      [] code = MEDIA_ERR_NETWORK -> "Network error"
      [] code = MEDIA_ERR_DECODE -> "Audio format not supported"
      [] code = MEDIA_ERR_SRC_NOT_SUPPORTED -> "Audio not available"
      [] OTHER -> "Failed to load audio"

\* audioRef?.error: 0 stands for no element or no error object
handleError(s) ==
    LET code == IF s.audioRef # Null THEN s.audio.error ELSE 0
    IN stopPlayback(onError(s, errorMessage(code)))

-----------------------------------------------------------------------------
(* Initial state: the store module is loaded, no component is mounted. *)

NoOp == [name |-> "init", id |-> Null, tag |-> ""]
Op(name, id, tag) == [name |-> name, id |-> id, tag |-> tag]

-----------------------------------------------------------------------------
(* The security settings page *)

\* validationErrors: the fields an enabled mechanism must have filled in
Required(m) ==
    IF m = "basicAuth" THEN {"password"}
    ELSE IF m = "allowSubnetBypass" THEN {"subnet"}
    ELSE {"clientId", "clientSecret"}

validationErrors(p) ==
    {<<m, f>> \in Mechs \X {"password", "subnet", "clientId", "clientSecret"} :
        /\ p.securitySettings.auth[m].enabled
        /\ f \in Required(m) \ p.securitySettings.auth[m].filled}

\* JSON.stringify({basicAuth, googleAuth, githubAuth, allowSubnetBypass}); ''
\* is the value before the first capture
NoOriginal == <<>>
Stringify(auth) == <<"{", [m \in Mechs |-> <<auth[m].enabled, auth[m].filled>>], "}">>

hasAuthChanges(p) ==
    IF p.originalAuthSettings = NoOriginal THEN FALSE
    ELSE Stringify(p.securitySettings.auth) # p.originalAuthSettings

canSaveAuth(p) == hasAuthChanges(p) /\ validationErrors(p) = {}

\* store.isSaving: a saveSettings call has not completed yet
isSaving(p) == p.authSaving \/ p.serverSaving

\* settingsActions.saveSettings(): no argument, the store sends what it
\* holds. The call is recorded with its caller and with what the store held.
SaveSettingsCall(p, by) ==
    <<[k |-> "saveSettings",
       v |-> <<by, hasAuthChanges(p), validationErrors(p) = {}>>]>>

\* settingsActions.updateSection('security', {...settings, ...})
updateSection(p, section) == [p EXCEPT !.securitySettings = section]

\* debouncedSaveServer: the pending timer is replaced by a new one
debouncedSaveServer(p) ==
    [p EXCEPT !.saveTimeout = TRUE, !.serverSaveStatus = "pending"]

\* updateAutoTLSEnabled, updateAutoTLSHost: auto-save
updateAutoTLSEnabled(p, enabled) ==
    debouncedSaveServer(
        updateSection(p, [p.securitySettings EXCEPT !.autoTls = enabled]))

updateAutoTLSHost(p, host) ==
    debouncedSaveServer(
        updateSection(p, [p.securitySettings EXCEPT !.host = host]))

\* updateBasicAuthEnabled, updateGoogleAuthEnabled, ...: no save
updateAuthEnabled(p, m, enabled) ==
    updateSection(p, [p.securitySettings EXCEPT !.auth[m].enabled = enabled])

\* updateBasicAuthPassword, updateGoogleClientId, ...: no save; the field
\* becomes filled or empty
updateAuthField(p, m, f, filled) ==
    updateSection(p, [p.securitySettings EXCEPT
        !.auth[m].filled = IF filled THEN @ \cup {f} ELSE @ \ {f}])

\* saveAuthSettings up to its await
saveAuthSettings(p) ==
    IF ~canSaveAuth(p) THEN p
    ELSE [p EXCEPT !.authSaveStatus = "saving", !.authSaving = TRUE]

\* saveAuthSettings after its await: not run when saveSettings() rejected
saveAuthSettingsResumed(p, ok) ==
    IF ok
    THEN [p EXCEPT !.authSaving = FALSE,
                   !.originalAuthSettings = Stringify(p.securitySettings.auth),
                   !.authSaveStatus = "saved", !.authReset = TRUE]
    ELSE [p EXCEPT !.authSaving = FALSE]

\* The settings a server may hold when the page loads: nothing enabled, or
\* the first mechanism enabled with its fields filled in.
AuthOff == [m \in Mechs |-> [enabled |-> FALSE, filled |-> {}]]
LoadedSettings ==
    {[host |-> 0, autoTls |-> FALSE, auth |-> a] :
        a \in {AuthOff,
               [AuthOff EXCEPT ![MechNames[1]] =
                   [enabled |-> TRUE, filled |-> Required(MechNames[1])]]}}

\* The page right after onMount called loadSettings().
PageInit ==
    [isLoading |-> TRUE,
     securitySettings |-> [host |-> 0, autoTls |-> FALSE, auth |-> AuthOff],
     originalAuthSettings |-> NoOriginal,
     authSaveStatus |-> "idle", authSaving |-> FALSE, authReset |-> FALSE,
     saveTimeout |-> FALSE, serverSaveStatus |-> "idle", serverSaving |-> FALSE,
     serverReset |-> FALSE]

-----------------------------------------------------------------------------
(* The settings pages with debounced auto-save *)

\* The pages: "main" is MobileMainSettingsPage (scheduleAutoSave, retrySave,
\* onDestroy), "debounced" is the debouncedSave of the Filter, UI and
\* Integration pages.
PageKinds == {"main", "debounced"}

\* The page before it is opened. Timers are counted: saveTimers and
\* statusTimers are the pending timers, saveTimeout and statusTimeout say
\* whether the page's handle variable names a timer that is still pending.
\* young counts the pending reset timers armed after the pending save timer:
\* the save delay (1500 or 800 ms) is shorter than the reset delay (2000 or
\* 1500 ms), so these fire after it. lateTimers are the reset timers armed
\* after the component was destroyed.
\* edits, burst, bursts and calls record the history: the edits made, the
\* edits since a save timer last fired, the bursts closed by a save timer
\* and the saveSettings calls started by a save timer.
AutoSaveInit ==
    [kind |-> "none", saveStatus |-> "idle",
     saveTimers |-> 0, saveTimeout |-> FALSE,
     statusTimers |-> 0, statusTimeout |-> FALSE, young |-> 0, lateTimers |-> 0,
     inFlight |-> 0, destroyed |-> FALSE,
     edits |-> 0, burst |-> 0, bursts |-> 0, calls |-> 0]

\* clearTimeout(saveTimeout): a no-op when that timer has fired or was cleared.
clearSaveTimeout(a) ==
    IF a.saveTimeout
    THEN [a EXCEPT !.saveTimers = @ - 1, !.saveTimeout = FALSE, !.young = 0]
    ELSE a

\* clearTimeout(statusTimeout)
clearStatusTimeout(a) ==
    IF a.statusTimeout
    THEN [a EXCEPT !.statusTimers = @ - 1, !.statusTimeout = FALSE,
                   !.young = IF @ > 0 THEN @ - 1 ELSE 0]
    ELSE a

\* saveStatus = 'pending'; saveTimeout = setTimeout(...)
armSaveTimeout(a) ==
    [a EXCEPT !.saveStatus = "pending", !.saveTimers = @ + 1, !.saveTimeout = TRUE,
              !.young = 0,
              !.edits = @ + 1, !.burst = @ + 1]

debouncedSave_NoClear(a) == armSaveTimeout(a)

\* debouncedSave() of the Filter, UI and Integration pages.
debouncedSave(a) == armSaveTimeout(clearSaveTimeout(a))

\* scheduleAutoSave() of the main page clears both timers first.
scheduleAutoSave(a) == armSaveTimeout(clearStatusTimeout(clearSaveTimeout(a)))

\* The save timer's callback up to its await: timers of one delay fire in the
\* order they were set, so the handle's timer fires when it is the only one.
saveTimerFires(a) ==
    [a EXCEPT !.saveTimers = @ - 1,
              !.saveTimeout = IF a.saveTimers = 1 THEN FALSE ELSE @,
              !.saveStatus = "saving",
              !.young = 0,
              !.inFlight = @ + 1,
              !.calls = @ + 1,
              !.bursts = IF a.burst > 0 THEN @ + 1 ELSE @,
              !.burst = 0]

\* saveStatus = 'saved' and the reset timer is armed. The main page stores the
\* timer in statusTimeout; the other pages do not keep the handle.
armStatusTimeout(a) ==
    LET s == [a EXCEPT !.saveStatus = "saved"]
    IN  IF a.destroyed
        THEN [s EXCEPT !.lateTimers = @ + 1]
        ELSE [s EXCEPT !.statusTimers = @ + 1,
                       !.young = IF a.saveTimers > 0 THEN @ + 1 ELSE @,
                       !.statusTimeout = (a.kind = "main")]

\* The continuation after await settingsActions.saveSettings(): the main page
\* catches a rejection and shows 'error', on the other pages the rejection
\* leaves the callback and saveStatus stays as it is.
saveSettled(a, ok) ==
    LET s == [a EXCEPT !.inFlight = @ - 1]
    IN  IF ok THEN armStatusTimeout(s)
        ELSE IF a.kind = "main" THEN [s EXCEPT !.saveStatus = "error"]
        ELSE s

\* A reset timer armed while the page was mounted fires.
statusTimerFires(a) ==
    [a EXCEPT !.statusTimers = @ - 1,
              !.statusTimeout = IF a.statusTimers = 1 THEN FALSE ELSE @,
              !.saveStatus = "idle"]

\* A reset timer armed after the component was destroyed fires.
lateTimerFires(a) ==
    [a EXCEPT !.lateTimers = @ - 1, !.saveStatus = "idle"]

\* retrySave() up to its await.
retrySave(a) == [a EXCEPT !.saveStatus = "saving", !.inFlight = @ + 1]

\* The component is destroyed: the main page's onDestroy clears both handles,
\* the other pages register no onDestroy.
onDestroyPage(a) ==
    IF a.kind = "main"
    THEN [clearStatusTimeout(clearSaveTimeout(a)) EXCEPT !.destroyed = TRUE, !.burst = 0]
    ELSE [a EXCEPT !.destroyed = TRUE]

-----------------------------------------------------------------------------
(* The dashboard: today's detections with infinite scroll *)

\* The dashboard's $state cells before onMount. backend is the backend's
\* result set for today as a list of detection ids in the order the backend
\* returns them; requests are the fetches in flight; grown and failed record
\* whether the result set grew and whether a fetch failed.
DashboardInit ==
    [mounted |-> FALSE, backend |-> <<>>, grown |-> 0, failed |-> FALSE,
     detections |-> <<>>, totalDetections |-> 0,
     detectionsLoading |-> TRUE, loadingMore |-> FALSE, detectionsError |-> FALSE,
     requests |-> <<>>]

hasMore_Always(d) == TRUE

hasMore(d) == Len(d.detections) < d.totalDetections

Min(a, b) == IF a < b THEN a ELSE b

\* GET /api/v2/detections?numResults=PAGE_SIZE&offset=offset
PageOf(backend, offset) ==
    SubSeq(backend, offset + 1, Min(offset + PAGE_SIZE, Len(backend)))

\* loadDetections(append) up to its await fetch(...).
loadDetections(d, append) ==
    IF d.loadingMore THEN d
    ELSE LET s == IF append
                  THEN [d EXCEPT !.loadingMore = TRUE]
                  ELSE [d EXCEPT !.detectionsError = FALSE,
                                 !.detectionsLoading = TRUE,
                                 !.detections = <<>>]
             offset == IF append THEN Len(s.detections) ELSE 0
         IN  [s EXCEPT !.requests = Append(@, [append |-> append, offset |-> offset])]

loadMore(d) ==
    IF hasMore(d) /\ ~d.loadingMore THEN loadDetections(d, TRUE) ELSE d

sentinelCallback_Unguarded(d) ==
    [d EXCEPT !.loadingMore = TRUE,
              !.requests = Append(@, [append |-> TRUE, offset |-> Len(d.detections)])]

\* The IntersectionObserver callback for an entry with isIntersecting.
sentinelCallback(d) ==
    IF hasMore(d) /\ ~d.loadingMore /\ ~d.detectionsLoading THEN loadMore(d) ELSE d

RemoveAt(q, i) == SubSeq(q, 1, i - 1) \o SubSeq(q, i + 1, Len(q))

removeRequest(d, i) == [d EXCEPT !.requests = RemoveAt(@, i)]

\* The try block after a response with response.ok to request req.
received(d, req) ==
    LET newDetections == PageOf(d.backend, req.offset)
    IN  [d EXCEPT !.detections = IF req.append THEN @ \o newDetections
                                                ELSE newDetections,
                  !.totalDetections = Len(d.backend)]

\* The catch block.
caught(d) == [d EXCEPT !.detectionsError = TRUE, !.failed = TRUE]

\* The finally block.
finally(d) == [d EXCEPT !.detectionsLoading = FALSE, !.loadingMore = FALSE]

fetchSettled_NoFinally(d, i, ok) ==
    IF ok THEN finally(received(removeRequest(d, i), d.requests[i]))
          ELSE caught(removeRequest(d, i))

\* The rest of loadDetections once request i settles: ok is a response with
\* response.ok, otherwise the fetch rejected or the response was not OK.
fetchSettled(d, i, ok) ==
    finally(IF ok THEN received(removeRequest(d, i), d.requests[i])
                  ELSE caught(removeRequest(d, i)))

\* The template: the skeleton, the error alert with its Retry button, or the
\* list, which ends in the sentinel when it is not empty.
SkeletonShown(d) == d.detectionsLoading /\ Len(d.detections) = 0
RetryShown(d) == ~SkeletonShown(d) /\ d.detectionsError
SentinelShown(d) ==
    ~SkeletonShown(d) /\ ~d.detectionsError /\ Len(d.detections) > 0

-----------------------------------------------------------------------------
(* The support page: support dump generation *)

\* The texts the GitHub issue field may hold.
IssueNumbers == {"", "#", "7", "#7"}

\* githubIssueNumber.replace('#', '')
StripHash(issue) ==
    CASE issue = "#" -> ""
      [] issue = "#7" -> "7"
      [] OTHER -> issue

\* The outcomes of the request: data.success with or without a download_url,
\* success = false, a response that is not OK, and a rejected fetch or a body
\* that does not parse.
Outcomes == {"success", "download", "unsuccessful", "httpError", "exception"}

\* The page's $state cells. anyIncluded says whether one of the three include
\* toggles is on; inFlight is the pending fetch, sent the body of the last
\* request, dumps the number of requests sent; progressTimers, clearTimers
\* and redirects count the pending timers.
SupportInit ==
    [generating |-> FALSE, statusMessage |-> "", statusType |-> "info",
     progressPercent |-> 0,
     anyIncluded |-> TRUE, githubIssueNumber |-> "", uploadToSentry |-> TRUE,
     inFlight |-> FALSE, sent |-> <<>>, dumps |-> 0,
     progressTimers |-> 0, clearTimers |-> 0, redirects |-> 0]

updateStatus(s, message, type, percent) ==
    [s EXCEPT !.statusMessage = message,
              !.statusType = type,
              !.progressPercent = percent,
              !.progressTimers = IF type = "info" /\ percent < 90 THEN @ + 1 ELSE @]

\* The callback of the timer armed by updateStatus.
progressTimerFires(s) ==
    [s EXCEPT !.progressTimers = @ - 1,
              !.progressPercent = IF s.generating /\ @ < 90 THEN Min(@ + 10, 90) ELSE @]

\* The callback of the timer armed after a success: clear the status line.
clearTimerFires(s) ==
    [s EXCEPT !.clearTimers = @ - 1,
              !.statusMessage = "", !.statusType = "info", !.progressPercent = 0]

\* generateSupportDump() up to its await fetch(...).
generateSupportDump(s) ==
    IF s.uploadToSentry /\ s.githubIssueNumber = ""
    THEN updateStatus(s, "githubIssueRequired", "error", 0)
    ELSE LET g == [s EXCEPT !.generating = TRUE, !.statusMessage = "",
                            !.statusType = "info", !.progressPercent = 0]
         IN  [updateStatus(g, "preparing", "info", 10) EXCEPT
                 !.inFlight = TRUE,
                 !.dumps = @ + 1,
                 !.sent = <<StripHash(s.githubIssueNumber), s.uploadToSentry>>]

dumpSettled_CatchKeepsGenerating(s, outcome) ==
    LET r == [s EXCEPT !.inFlight = FALSE]
    IN  IF outcome \in {"httpError", "exception"}
        THEN updateStatus(r, "error", "error", 0)
        ELSE updateStatus([r EXCEPT !.generating = FALSE], "done", "error", 0)

\* generateSupportDump() after the fetch settled.
dumpSettled(s, outcome) ==
    LET r == [s EXCEPT !.inFlight = FALSE, !.generating = FALSE]
    IN  CASE outcome = "success" ->
               [updateStatus(r, "success", "success", 100) EXCEPT !.clearTimers = @ + 1]
          [] outcome = "download" ->
               [updateStatus(r, "downloadSuccess", "success", 100) EXCEPT
                   !.clearTimers = @ + 1, !.redirects = @ + 1]
          [] outcome = "unsuccessful" -> updateStatus(r, "generateFailed", "error", 0)
          [] OTHER -> updateStatus(r, "error", "error", 0)

generateButtonDisabled(s) ==
    \/ s.generating
    \/ ~s.anyIncluded
    \/ s.uploadToSentry /\ s.githubIssueNumber = ""

-----------------------------------------------------------------------------
(* The audio settings page: clip export length and preCapture *)

\* The export settings before the store has loaded them.
AudioSettingsInit == [loaded |-> FALSE, length |-> 0, preCapture |-> 0]

\* Math.floor(length / 2) for a slider value.
Floor2(length) == length \div 2

updateExportLength_NoClamp(a, length) == [a EXCEPT !.length = length]

\* updateExportLength(length): updateSection('realtime', ...) with the new
\* export record.
updateExportLength(a, length) ==
    LET maxPreCapture == Floor2(length)
    IN  IF a.preCapture > maxPreCapture
        THEN [a EXCEPT !.length = length, !.preCapture = maxPreCapture]
        ELSE [a EXCEPT !.length = length]

updateExportPreCapture(a, preCapture) == [a EXCEPT !.preCapture = preCapture]

Init ==
    /\ currentlyPlayingId = Null
    /\ isPlaying = FALSE
    /\ audioElement = Null
    /\ mounted = FALSE
    /\ audioRef = Null
    /\ audio = NoAudio
    /\ dirty = FALSE
    /\ rejections = {}
    /\ detached = Null
    /\ log = <<>>
    /\ lastOp = NoOp
    /\ toggleRun = <<>>
    /\ registered = Null
    /\ binders = [b \in Binders |-> [mounted |-> FALSE, dirty |-> FALSE, hasRef |-> FALSE]]
    /\ elements = [b \in Binders |-> NoAudio]
    /\ page = PageInit
    /\ autosave = AutoSaveInit
    /\ dashboard = DashboardInit
    /\ support = SupportInit
    /\ audioSettings = AudioSettingsInit

-----------------------------------------------------------------------------
(* Actions *)

\* A consumer row (or any caller) calls playDetection(id). The store is a
\* plain module: a call may come before the component update scheduled by an
\* earlier call has run.
PlayDetectionCall(id, allowed) ==
    LET s == playDetection(State, id, allowed)
        toggle == currentlyPlayingId = id /\ audioElement # Null
        after == <<s.currentlyPlayingId, s.isPlaying>>
    IN /\ Commit(s)
       /\ lastOp' = Op("playDetection", id,
                       IF toggle THEN "toggle"
                       ELSE IF currentlyPlayingId = id THEN "reselect" ELSE "replace")
       /\ toggleRun' =
            IF currentlyPlayingId = Null /\ mounted THEN <<after>>
            ELSE IF toggleRun # <<>> /\ Len(toggleRun) < MaxRun /\ toggleRun[1][1] = id
                 THEN Append(toggleRun, after)
                 ELSE <<>>

StopPlaybackCall ==
    /\ Commit(stopPlayback(State))
    /\ lastOp' = Op("stopPlayback", Null, "")
    /\ toggleRun' = <<>>

MountPlayer ==
    /\ ~mounted
    /\ Commit(Mount(State))
    /\ lastOp' = Op("mount", Null, "")
    /\ toggleRun' = <<>>

UnmountPlayer ==
    /\ mounted
    /\ Commit(onDestroy(State))
    /\ lastOp' = Op("unmount", Null, "")
    /\ toggleRun' = <<>>

\* The scheduled component update (a microtask): registers the handle and loads.
FlushEffects ==
    /\ mounted /\ dirty
    /\ Commit(Flush(State))
    /\ lastOp' = Op("flush", Null, "")
    /\ UNCHANGED toggleRun

\* The browser: enough data has arrived; a canplay event is queued.
BrowserCanPlay ==
    /\ audioRef # Null /\ audio.netState = "loading"
    /\ audio' = [audio EXCEPT !.netState = "ready", !.events = @ \cup {"canplay"}]
    /\ lastOp' = Op("browser", Null, "canplay")
    /\ log' = <<>>
    /\ UNCHANGED <<currentlyPlayingId, isPlaying, audioElement, mounted, audioRef,
                   dirty, rejections, detached, toggleRun,
                   registered, binders, elements, page,
                   autosave, dashboard, support, audioSettings>>

\* The browser: playback has started; the pending play promises are resolved.
BrowserPlaying ==
    /\ audioRef # Null /\ audio.netState = "ready" /\ ~audio.paused
    /\ audio.pending # {}
    /\ audio' = [audio EXCEPT !.pending = {}]
    /\ lastOp' = Op("playResolved", Null,
                    IF "toggle" \in audio.pending THEN "toggle" ELSE "canplay")
    /\ log' = <<>>
    /\ UNCHANGED <<currentlyPlayingId, isPlaying, audioElement, mounted, audioRef,
                   dirty, rejections, detached, toggleRun,
                   registered, binders, elements, page,
                   autosave, dashboard, support, audioSettings>>

\* The browser: the playback position advances while rendering.
BrowserTimeUpdate ==
    /\ audioRef # Null /\ audio.netState = "ready" /\ ~audio.paused
    /\ audio.pending = {} /\ audio.currentTime = 0
    /\ audio' = [audio EXCEPT !.currentTime = 1]
    /\ lastOp' = Op("browser", Null, "timeupdate")
    /\ log' = <<>>
    /\ toggleRun' = <<>>
    /\ UNCHANGED <<currentlyPlayingId, isPlaying, audioElement, mounted, audioRef,
                   dirty, rejections, detached,
                   registered, binders, elements, page,
                   autosave, dashboard, support, audioSettings>>

\* The browser: the clip reached its end; the element pauses and an ended
\* event is queued.
BrowserEnded ==
    /\ audioRef # Null /\ audio.netState = "ready" /\ ~audio.paused
    /\ audio.pending = {} /\ audio.currentTime = 1
    /\ audio' = [audio EXCEPT !.paused = TRUE, !.events = @ \cup {"ended"}]
    /\ lastOp' = Op("browser", Null, "ended")
    /\ log' = <<>>
    /\ toggleRun' = <<>>
    /\ UNCHANGED <<currentlyPlayingId, isPlaying, audioElement, mounted, audioRef,
                   dirty, rejections, detached,
                   registered, binders, elements, page,
                   autosave, dashboard, support, audioSettings>>

\* The browser: loading or decoding failed; pending play promises are rejected
\* and an error event is queued.
BrowserError(code) ==
    /\ audioRef # Null /\ audio.netState \in {"loading", "ready"}
    /\ audio' = [audio EXCEPT !.netState = "failed", !.error = code, !.pending = {},
                              !.events = @ \cup {"error"}]
    /\ rejections' = rejections \cup audio.pending
    /\ lastOp' = Op("browser", code, "error")
    /\ log' = <<>>
    /\ toggleRun' = <<>>
    /\ UNCHANGED <<currentlyPlayingId, isPlaying, audioElement, mounted, audioRef, dirty,
                   detached,
                   registered, binders, elements, page,
                   autosave, dashboard, support, audioSettings>>

\* Delivery of a queued media event to the component's handler. A task runs
\* only after the scheduled component update (a microtask) has run.
Take(ev) == [State EXCEPT !.audio.events = @ \ {ev}]

OnCanPlay(allowed) ==
    /\ audioRef # Null /\ ~dirty /\ "canplay" \in audio.events
    /\ Commit(handleCanPlay(Take("canplay"), allowed))
    /\ lastOp' = Op("canplay", Null, "")
    /\ UNCHANGED toggleRun

OnEnded ==
    /\ audioRef # Null /\ ~dirty /\ "ended" \in audio.events
    /\ Commit(handleEnded(Take("ended")))
    /\ lastOp' = Op("ended", currentlyPlayingId, "")
    /\ toggleRun' = <<>>

OnError ==
    /\ audioRef # Null /\ ~dirty /\ "error" \in audio.events
    /\ Commit(handleError(Take("error")))
    /\ lastOp' = Op("error", audio.error, "")
    /\ toggleRun' = <<>>

\* Delivery of the outcome of the removed element's load. The listeners of
\* the removed element are the component's handlers, which read the
\* component's current audioRef. Whether the framework runtime has removed
\* them with the element depends on its version, so delivery may or may not
\* happen.
OnDetachedCanPlay(allowed) ==
    /\ mounted /\ ~dirty /\ detached # Null
    /\ Commit(handleCanPlay([State EXCEPT !.detached = Null], allowed))
    /\ lastOp' = Op("canplay", detached, "detached")
    /\ UNCHANGED toggleRun

OnDetachedError ==
    /\ mounted /\ ~dirty /\ detached # Null
    /\ Commit(handleError([State EXCEPT !.detached = Null]))
    /\ lastOp' = Op("error", IF audioRef # Null THEN audio.error ELSE 0, "detached")
    /\ toggleRun' = <<>>

\* The catch callback of a rejected play() promise runs.
PlayRejected(origin) ==
    /\ origin \in rejections
    /\ LET s == [State EXCEPT !.rejections = @ \ {origin}]
       IN Commit(IF origin = "canplay" THEN catchCanPlay(s) ELSE catchToggle(s))
    /\ lastOp' = Op("playRejected", Null, origin)
    /\ toggleRun' = <<>>

Next ==
    \/ \E id \in Ids, allowed \in BOOLEAN : PlayDetectionCall(id, allowed)
    \/ StopPlaybackCall
    \/ MountPlayer
    \/ UnmountPlayer
    \/ FlushEffects
    \/ BrowserCanPlay
    \/ BrowserPlaying
    \/ BrowserTimeUpdate
    \/ BrowserEnded
    \/ \E code \in ErrorCodes : BrowserError(code)
    \/ \E allowed \in BOOLEAN : OnCanPlay(allowed)
    \/ OnEnded
    \/ OnError
    \/ \E allowed \in BOOLEAN : OnDetachedCanPlay(allowed)
    \/ OnDetachedError
    \/ \E origin \in {"canplay", "toggle"} : PlayRejected(origin)

Spec == Init /\ [][Next]_vars

\* The application's scheduling. Every call of the store comes from an event
\* handler (the row's tap handler, the media event handlers), that is from a
\* task, and the component update scheduled by a store write is a microtask:
\* it runs before the next task starts. The browser changes the element's
\* state in tasks of its own; promise reactions are microtasks as well and
\* are not held back.
NextScheduled ==
    \/ ~dirty /\ \E id \in Ids, allowed \in BOOLEAN : PlayDetectionCall(id, allowed)
    \/ ~dirty /\ StopPlaybackCall
    \/ ~dirty /\ MountPlayer
    \/ ~dirty /\ UnmountPlayer
    \/ FlushEffects
    \/ ~dirty /\ BrowserCanPlay
    \/ ~dirty /\ BrowserPlaying
    \/ ~dirty /\ BrowserTimeUpdate
    \/ ~dirty /\ BrowserEnded
    \/ ~dirty /\ \E code \in ErrorCodes : BrowserError(code)
    \/ \E allowed \in BOOLEAN : OnCanPlay(allowed)
    \/ OnEnded
    \/ OnError
    \/ \E allowed \in BOOLEAN : OnDetachedCanPlay(allowed)
    \/ OnDetachedError
    \/ \E origin \in {"canplay", "toggle"} : PlayRejected(origin)

\* A scheduled component update is never postponed for ever.
FairSpec == Init /\ [][NextScheduled]_vars /\ WF_vars(FlushEffects)

-----------------------------------------------------------------------------
(* Several MobileAudioPlayer instances on one store *)

\* The component code names its own element Elem; instance b's element is b.
Swap(b, x) == IF x = Elem THEN b ELSE IF x = b THEN Elem ELSE x

\* The state as instance b's code sees it: its own mounted flag, pending
\* update, audioRef and element, and the shared store.
BinderView(b) ==
    [State EXCEPT !.mounted = binders[b].mounted,
                  !.dirty = binders[b].dirty,
                  !.audioRef = IF binders[b].hasRef THEN Elem ELSE Null,
                  !.audio = elements[b],
                  !.audioElement = Swap(b, audioElement),
                  !.registered = Swap(b, registered)]

CommitBinder(b, t) ==
    /\ currentlyPlayingId' = t.currentlyPlayingId
    /\ isPlaying' = t.isPlaying
    /\ audioElement' = Swap(b, t.audioElement)
    /\ registered' = Swap(b, t.registered)
    /\ binders' = [binders EXCEPT ![b] = [mounted |-> t.mounted, dirty |-> t.dirty,
                                          hasRef |-> t.audioRef # Null]]
    /\ elements' = [elements EXCEPT ![b] = t.audio]
    /\ rejections' = t.rejections
    /\ log' = t.log
    /\ UNCHANGED <<mounted, audioRef, audio, dirty, detached, toggleRun, page,
                   autosave, dashboard, support, audioSettings>>

\* The state as the store's functions see it: the element behind the
\* registered reference. Every mounted instance subscribes to
\* currentlyPlayingId and schedules its update when the value changes.
StoreView ==
    [State EXCEPT !.audio = IF audioElement # Null THEN elements[audioElement]
                            ELSE NoAudio]

CommitStore(t) ==
    /\ currentlyPlayingId' = t.currentlyPlayingId
    /\ isPlaying' = t.isPlaying
    /\ audioElement' = t.audioElement
    /\ registered' = t.registered
    /\ binders' = [b \in Binders |->
                     [binders[b] EXCEPT !.dirty = @ \/
                         (binders[b].mounted
                            /\ t.currentlyPlayingId # currentlyPlayingId)]]
    /\ elements' = IF audioElement # Null
                   THEN [elements EXCEPT ![audioElement] = t.audio]
                   ELSE elements
    /\ rejections' = t.rejections
    /\ log' = t.log
    /\ UNCHANGED <<mounted, audioRef, audio, dirty, detached, toggleRun, page,
                   autosave, dashboard, support, audioSettings>>

BinderMount(b) ==
    /\ ~binders[b].mounted
    /\ CommitBinder(b, Mount(BinderView(b)))
    /\ lastOp' = Op("mount", b, "binder")

BinderUnmount(b) ==
    /\ binders[b].mounted
    /\ CommitBinder(b, onDestroy(BinderView(b)))
    /\ lastOp' = Op("unmount", b, "binder")

BinderUpdate(b) ==
    /\ binders[b].mounted /\ binders[b].dirty
    /\ CommitBinder(b, Flush(BinderView(b)))
    /\ lastOp' = Op("flush", b, "binder")

BinderPlayDetection(id, allowed) ==
    /\ CommitStore(playDetection(StoreView, id, allowed))
    /\ lastOp' = Op("playDetection", id, "binder")

BinderStopPlayback ==
    /\ CommitStore(stopPlayback(StoreView))
    /\ lastOp' = Op("stopPlayback", Null, "binder")

NextBinders ==
    \/ \E b \in Binders : BinderMount(b)
    \/ \E b \in Binders : BinderUnmount(b)
    \/ \E b \in Binders : BinderUpdate(b)
    \/ \E id \in Ids, allowed \in BOOLEAN : BinderPlayDetection(id, allowed)
    \/ BinderStopPlayback

SpecBinders == Init /\ [][NextBinders]_vars

-----------------------------------------------------------------------------
(* The security settings page: actions *)

\* A step of the page: p is the page after it, calls the saveSettings calls
\* it issued. The audio store is not involved.
PageStep(p, calls) ==
    /\ page' = p
    /\ log' = calls
    /\ lastOp' = Op("securityPage", Null, "")
    /\ UNCHANGED <<currentlyPlayingId, isPlaying, audioElement, mounted, audioRef,
                   audio, dirty, rejections, detached, toggleRun, registered,
                   binders, elements,
                   autosave, dashboard, support, audioSettings>>

\* The inputs are disabled while store.isLoading or store.isSaving.
InputsEnabled == ~page.isLoading /\ ~isSaving(page)

\* loadSettings() completes; the capture effect stores the original auth
\* settings if none are stored yet.
SettingsLoaded(loaded) ==
    /\ page.isLoading
    /\ PageStep([page EXCEPT
            !.isLoading = FALSE, !.securitySettings = loaded,
            !.originalAuthSettings =
                IF @ = NoOriginal THEN Stringify(loaded.auth) ELSE @], <<>>)

UpdateAutoTLSEnabled(enabled) ==
    /\ InputsEnabled
    /\ PageStep(updateAutoTLSEnabled(page, enabled), <<>>)

UpdateAutoTLSHost(host) ==
    /\ InputsEnabled
    /\ PageStep(updateAutoTLSHost(page, host), <<>>)

UpdateAuthEnabled(m, enabled) ==
    /\ InputsEnabled
    /\ PageStep(updateAuthEnabled(page, m, enabled), <<>>)

\* The password and subnet inputs are disabled while their mechanism is off.
UpdateAuthField(m, f, filled) ==
    /\ InputsEnabled /\ f \in Required(m)
    /\ f \in {"password", "subnet"} => page.securitySettings.auth[m].enabled
    /\ PageStep(updateAuthField(page, m, f, filled), <<>>)

\* The save button: disabled={!canSaveAuth || authSaveStatus === 'saving'}
SaveAuthClick ==
    /\ ~page.isLoading
    /\ canSaveAuth(page) /\ page.authSaveStatus # "saving"
    /\ PageStep(saveAuthSettings(page), SaveSettingsCall(page, "saveAuthSettings"))

SaveAuthSettled(ok) ==
    /\ page.authSaving
    /\ PageStep(saveAuthSettingsResumed(page, ok), <<>>)

\* setTimeout(() => authSaveStatus = 'idle', 2000)
AuthResetFires ==
    /\ page.authReset
    /\ PageStep([page EXCEPT !.authReset = FALSE, !.authSaveStatus = "idle"], <<>>)

\* The debounce timer of debouncedSaveServer fires (800 ms after the last
\* server-config change).
ServerTimerFires ==
    /\ page.saveTimeout
    /\ PageStep([page EXCEPT !.saveTimeout = FALSE, !.serverSaveStatus = "saving",
                             !.serverSaving = TRUE],
                SaveSettingsCall(page, "debouncedSaveServer"))

ServerSaveSettled(ok) ==
    /\ page.serverSaving
    /\ PageStep(IF ok
                THEN [page EXCEPT !.serverSaving = FALSE, !.serverSaveStatus = "saved",
                                  !.serverReset = TRUE]
                ELSE [page EXCEPT !.serverSaving = FALSE], <<>>)

\* setTimeout(() => serverSaveStatus = 'idle', 1500)
ServerResetFires ==
    /\ page.serverReset
    /\ PageStep([page EXCEPT !.serverReset = FALSE, !.serverSaveStatus = "idle"], <<>>)

NextSecurity ==
    \/ \E loaded \in LoadedSettings : SettingsLoaded(loaded)
    \/ \E enabled \in BOOLEAN : UpdateAutoTLSEnabled(enabled)
    \/ \E host \in Hosts : UpdateAutoTLSHost(host)
    \/ \E m \in Mechs, enabled \in BOOLEAN : UpdateAuthEnabled(m, enabled)
    \/ \E m \in Mechs, f \in {"password", "subnet", "clientId", "clientSecret"},
          filled \in BOOLEAN : UpdateAuthField(m, f, filled)
    \/ SaveAuthClick
    \/ \E ok \in BOOLEAN : SaveAuthSettled(ok)
    \/ AuthResetFires
    \/ ServerTimerFires
    \/ \E ok \in BOOLEAN : ServerSaveSettled(ok)
    \/ ServerResetFires

SpecSecurity == Init /\ [][NextSecurity]_vars

-----------------------------------------------------------------------------
(* The settings pages with debounced auto-save: actions *)

\* A step of an auto-save page: a is the page after it, calls the
\* saveSettings calls it issued, by the handler that ran.
AutoSaveStep(a, calls, by) ==
    /\ autosave' = a
    /\ log' = calls
    /\ lastOp' = Op("autoSavePage", Null, by)
    /\ UNCHANGED <<currentlyPlayingId, isPlaying, audioElement, mounted, audioRef,
                   audio, dirty, rejections, detached, toggleRun, registered,
                   binders, elements, page, dashboard, support, audioSettings>>

\* One of the pages is opened.
OpenPage(kind) ==
    /\ autosave.kind = "none"
    /\ AutoSaveStep([AutoSaveInit EXCEPT !.kind = kind], <<>>, "mount")

\* An input's handler: updateSection(...) and then the page's debounce. The
\* inputs of the Filter, UI and Integration pages are disabled while
\* store.isSaving, those of the main page are never disabled.
EditSetting ==
    /\ autosave.kind # "none"
    /\ ~autosave.destroyed
    /\ autosave.edits < MaxEdits
    /\ autosave.kind = "debounced" => autosave.inFlight = 0
    /\ AutoSaveStep(IF autosave.kind = "main" THEN scheduleAutoSave(autosave)
                                               ELSE debouncedSave(autosave),
                    <<>>, "edit")

SaveTimerFires ==
    /\ autosave.saveTimers > 0
    /\ AutoSaveStep(saveTimerFires(autosave),
                    <<[k |-> "saveSettings", v |-> <<"autoSave">>]>>, "saveTimer")

SaveSettled(ok) ==
    /\ autosave.inFlight > 0
    /\ AutoSaveStep(saveSettled(autosave, ok), <<>>, "settled")

\* The oldest reset timer fires, unless the save timer has to fire first.
StatusTimerFires ==
    /\ autosave.statusTimers > autosave.young
    /\ AutoSaveStep(statusTimerFires(autosave), <<>>, "statusTimer")

LateTimerFires ==
    /\ autosave.lateTimers > 0
    /\ AutoSaveStep(lateTimerFires(autosave), <<>>, "lateTimer")

\* The Retry button is rendered while saveStatus is 'error'.
RetrySaveClick ==
    /\ autosave.kind = "main"
    /\ ~autosave.destroyed
    /\ autosave.saveStatus = "error"
    /\ AutoSaveStep(retrySave(autosave),
                    <<[k |-> "saveSettings", v |-> <<"retrySave">>]>>, "retry")

DestroyPage ==
    /\ autosave.kind # "none"
    /\ ~autosave.destroyed
    /\ AutoSaveStep(onDestroyPage(autosave), <<>>, "destroy")

NextAutoSave ==
    \/ \E kind \in PageKinds : OpenPage(kind)
    \/ EditSetting
    \/ SaveTimerFires
    \/ \E ok \in BOOLEAN : SaveSettled(ok)
    \/ StatusTimerFires
    \/ LateTimerFires
    \/ RetrySaveClick
    \/ DestroyPage

SpecAutoSave == Init /\ [][NextAutoSave]_vars

\* A timer that is pending fires after its delay.
FairSpecAutoSave ==
    Init /\ [][NextAutoSave]_vars /\ WF_vars(SaveTimerFires)

-----------------------------------------------------------------------------
(* The dashboard: actions *)

\* The fetch a step started, if it started one.
Fetches(before, after) ==
    IF Len(after.requests) > Len(before.requests)
    THEN <<[k |-> "fetch", v |-> <<after.requests[Len(after.requests)].append,
                                   after.requests[Len(after.requests)].offset>>]>>
    ELSE <<>>

\* A step of the dashboard: d is the dashboard after it, by the handler that
\* ran; the log holds the fetch it started.
DashboardStep(d, by) ==
    /\ dashboard' = d
    /\ log' = Fetches(dashboard, d)
    /\ lastOp' = Op("dashboard", Null, by)
    /\ UNCHANGED <<currentlyPlayingId, isPlaying, audioElement, mounted, audioRef,
                   audio, dirty, rejections, detached, toggleRun, registered,
                   binders, elements, page, autosave, support, audioSettings>>

\* onMount with a backend that holds n detections for today.
DashboardMount(n) ==
    /\ ~dashboard.mounted
    /\ DashboardStep(loadDetections([dashboard EXCEPT !.mounted = TRUE,
                                                      !.backend = [i \in 1..n |-> i]],
                                    FALSE),
                     "mount")

\* The sentinel comes into view.
SentinelIntersects ==
    /\ dashboard.mounted
    /\ SentinelShown(dashboard)
    /\ DashboardStep(sentinelCallback(dashboard), "intersect")

\* A click on the Retry button of the error alert.
RetryClick ==
    /\ dashboard.mounted
    /\ RetryShown(dashboard)
    /\ DashboardStep(loadDetections(dashboard, FALSE), "retry")

FetchSettled(i, ok) ==
    /\ i \in 1..Len(dashboard.requests)
    /\ DashboardStep(fetchSettled(dashboard, i, ok), IF ok THEN "response" ELSE "failure")

\* A new detection is recorded: it enters the backend's result set at its
\* head or at its tail, depending on the backend's order.
BackendGrows(atHead) ==
    /\ dashboard.mounted
    /\ dashboard.grown < MaxGrow
    /\ LET id == Len(dashboard.backend) + 1
       IN  DashboardStep([dashboard EXCEPT
                            !.backend = IF atHead THEN <<id>> \o @ ELSE Append(@, id),
                            !.grown = @ + 1],
                         "grow")

NextDashboard ==
    \/ \E n \in 0..MaxBackend : DashboardMount(n)
    \/ SentinelIntersects
    \/ RetryClick
    \/ \E i \in 1..MaxRequests, ok \in BOOLEAN : FetchSettled(i, ok)
    \/ \E atHead \in BOOLEAN : BackendGrows(atHead)

SpecDashboard == Init /\ [][NextDashboard]_vars

\* A backend whose result set is fixed and whose every request succeeds, a
\* sentinel that keeps coming into view, and fetches that settle.
NextDashboardFixed ==
    \/ \E n \in 0..MaxBackend : DashboardMount(n)
    \/ SentinelIntersects
    \/ \E i \in 1..MaxRequests : FetchSettled(i, TRUE)

FairSpecDashboard ==
    /\ Init
    /\ [][NextDashboardFixed]_vars
    /\ WF_vars(SentinelIntersects)
    /\ WF_vars(\E i \in 1..MaxRequests : FetchSettled(i, TRUE))

-----------------------------------------------------------------------------
(* The support page: actions *)

\* A step of the support page: s is the page after it, by the handler that
\* ran; the log holds the request it sent.
SupportStep(s, by) ==
    /\ support' = s
    /\ log' = IF s.dumps > support.dumps
              THEN <<[k |-> "generate", v |-> s.sent]>> ELSE <<>>
    /\ lastOp' = Op("supportPage", Null, by)
    /\ UNCHANGED <<currentlyPlayingId, isPlaying, audioElement, mounted, audioRef,
                   audio, dirty, rejections, detached, toggleRun, registered,
                   binders, elements, page, autosave, dashboard, audioSettings>>

\* The toggles and the issue field are disabled while generating.
ToggleInclude ==
    /\ ~support.generating
    /\ SupportStep([support EXCEPT !.anyIncluded = ~@], "include")

ToggleUpload ==
    /\ ~support.generating
    /\ SupportStep([support EXCEPT !.uploadToSentry = ~@], "upload")

\* The issue field is rendered while uploadToSentry is on.
TypeIssueNumber(issue) ==
    /\ ~support.generating
    /\ support.uploadToSentry
    /\ issue # support.githubIssueNumber
    /\ SupportStep([support EXCEPT !.githubIssueNumber = issue], "issue")

GenerateClick ==
    /\ ~generateButtonDisabled(support)
    /\ support.dumps < MaxDumps
    /\ SupportStep(generateSupportDump(support), "generate")

DumpSettled(outcome) ==
    /\ support.inFlight
    /\ SupportStep(dumpSettled(support, outcome), outcome)

ProgressTimerFires ==
    /\ support.progressTimers > 0
    /\ SupportStep(progressTimerFires(support), "progressTimer")

ClearTimerFires ==
    /\ support.clearTimers > 0
    /\ SupportStep(clearTimerFires(support), "clearTimer")

\* window.location.href = data.download_url starts the download.
RedirectFires ==
    /\ support.redirects > 0
    /\ SupportStep([support EXCEPT !.redirects = @ - 1], "redirect")

NextSupport ==
    \/ ToggleInclude
    \/ ToggleUpload
    \/ \E issue \in IssueNumbers : TypeIssueNumber(issue)
    \/ GenerateClick
    \/ \E outcome \in Outcomes : DumpSettled(outcome)
    \/ ProgressTimerFires
    \/ ClearTimerFires
    \/ RedirectFires

SpecSupport == Init /\ [][NextSupport]_vars

-----------------------------------------------------------------------------
(* The audio settings page: actions *)

\* A step of the audio settings page; the handlers end in debouncedSave().
AudioSettingsStep(a, op, calls) ==
    /\ audioSettings' = a
    /\ log' = calls
    /\ lastOp' = op
    /\ UNCHANGED <<currentlyPlayingId, isPlaying, audioElement, mounted, audioRef,
                   audio, dirty, rejections, detached, toggleRun, registered,
                   binders, elements, page, autosave, dashboard, support>>

\* loadSettings() delivers the stored export settings.
AudioSettingsLoaded(length, preCapture) ==
    /\ ~audioSettings.loaded
    /\ AudioSettingsStep([loaded |-> TRUE, length |-> length, preCapture |-> preCapture],
                         Op("audioSettings", Null, "loaded"), <<>>)

\* The length slider is moved to length.
UpdateExportLength(length) ==
    /\ audioSettings.loaded
    /\ AudioSettingsStep(updateExportLength(audioSettings, length),
                         Op("updateExportLength", length,
                            IF audioSettings.preCapture > Floor2(length)
                            THEN "above" ELSE "within"),
                         <<[k |-> "debouncedSave", v |-> <<>>]>>)

\* The preCapture slider, whose max is Math.floor(length / 2), is moved.
UpdateExportPreCapture(preCapture) ==
    /\ audioSettings.loaded
    /\ preCapture <= Floor2(audioSettings.length)
    /\ AudioSettingsStep(updateExportPreCapture(audioSettings, preCapture),
                         Op("updateExportPreCapture", preCapture, ""),
                         <<[k |-> "debouncedSave", v |-> <<>>]>>)

NextAudioSettings ==
    \/ \E length \in 0..MaxLength, preCapture \in 0..MaxLength :
          AudioSettingsLoaded(length, preCapture)
    \/ \E length \in 0..MaxLength : UpdateExportLength(length)
    \/ \E preCapture \in 0..MaxLength : UpdateExportPreCapture(preCapture)

SpecAudioSettings == Init /\ [][NextAudioSettings]_vars

TypeOK ==
    /\ currentlyPlayingId \in Ids \cup {Null}
    /\ isPlaying \in BOOLEAN
    /\ audioElement \in Binders \cup {Null}
    /\ audioRef \in {Null, Elem}
    /\ audio.netState \in {"empty", "loading", "ready", "failed"}
    /\ rejections \subseteq {"canplay", "toggle"}
    /\ detached \in Ids \cup {Null}
    /\ registered \in Binders \cup {Null}
    /\ \A b \in Binders : binders[b].hasRef => binders[b].mounted

-----------------------------------------------------------------------------
(* Properties *)

Entries(k) == SelectSeq(log, LAMBDA e : e.k = k)
HandleCalls(l) == SelectSeq(l, LAMBDA e : e.k \in {"play", "pause", "seek", "load"})
Selected == currentlyPlayingId # Null
HandlePaused == audioElement = Null \/ audio.paused
Rendering == audioElement # Null /\ ~audio.paused

\* C1: single-flight playback: in every reachable state at most one detection
\* id d has currentlyPlayingId = d and isPlaying = true, so at most one
\* dashboard row is shown as playing.
C1_SingleFlight ==
    Cardinality({d \in Ids : RowIsPlaying(State, d)}) <= 1

\* C1 witness: a row is shown as playing right after the selection was moved
\* to it from another clip whose source is still bound to the element.
C1_Witness ==
    /\ lastOp.name = "playDetection" /\ lastOp.tag = "replace"
    /\ RowIsPlaying(State, lastOp.id)
    /\ audioRef # Null /\ audio.src # <<>> /\ audio.src # audioUrl(lastOp.id)

\* C2: in every reachable state isPlaying = true implies that
\* currentlyPlayingId is not null.
C2_ActivityImpliesSelection ==
    isPlaying => currentlyPlayingId # Null

\* C2 witness: a same-id playDetection has just resumed a paused, selected
\* clip: the activity is true and the selection is that clip.
C2_Witness ==
    /\ lastOp.name = "playDetection" /\ lastOp.tag = "toggle"
    /\ isPlaying /\ currentlyPlayingId = lastOp.id
    /\ audioElement # Null /\ ~audio.paused /\ audio.netState = "ready"

\* C3 (as claimed): starting from Idle with the component mounted, successive
\* playDetection(id) calls with the same id leave selection = id and make the
\* activity true, false, true, wherever the handle registration and the
\* ready-to-play event fall between the calls.
C3_ToggleSequence ==
    \A i \in 1..Len(toggleRun) :
        toggleRun[i] = <<toggleRun[1][1], i % 2 = 1>>

\* C4: from any reachable state, playDetection(id2) with id2 different from
\* the selection (none and a paused id1 included) gives selection = id2 and
\* activity = true, leaves isDetectionPlaying(id1) false for every other id1,
\* and makes no call on the registered handle.
C4_ReplaceSelection ==
    \A id2 \in Ids, allowed \in BOOLEAN :
        id2 # currentlyPlayingId =>
            LET s == playDetection(State, id2, allowed)
            IN /\ s.currentlyPlayingId = id2
               /\ s.isPlaying
               /\ \A id1 \in Ids \ {id2} : ~isDetectionPlaying(s, id1)
               /\ HandleCalls(s.log) = <<>>
               /\ s.audio = audio /\ s.audioElement = audioElement

\* C4 witness: playDetection has just replaced the selection of a paused clip
\* whose handle is registered.
C4_Witness ==
    /\ lastOp.name = "playDetection" /\ lastOp.tag = "replace"
    /\ currentlyPlayingId = lastOp.id /\ isPlaying
    /\ audioElement # Null /\ audio.paused /\ audio.netState = "ready"
    /\ audio.src # audioUrl(lastOp.id)
    /\ log = <<>>

\* C5: from any reachable state stopPlayback() gives selection = none and
\* activity = false; a handle registered at the call is paused at position 0
\* afterwards; a second stopPlayback() changes nothing.
C5_StopPlayback ==
    LET s == stopPlayback(State)
        t == stopPlayback([s EXCEPT !.log = <<>>])
    IN /\ s.currentlyPlayingId = Null
       /\ ~s.isPlaying
       /\ audioElement # Null => s.audio.paused /\ s.audio.currentTime = 0
       /\ [t EXCEPT !.log = <<>>] = [s EXCEPT !.log = <<>>]

\* C5 witness: stopPlayback has just run on a registered handle whose clip had
\* played to its end (the ended event is still queued): the handle is paused
\* and back at position 0, and the state is Idle.
C5_Witness ==
    /\ lastOp.name = "stopPlayback"
    /\ audioElement # Null /\ audio.paused /\ audio.currentTime = 0
    /\ audio.netState = "ready" /\ audio.events = {"ended"}
    /\ currentlyPlayingId = Null /\ ~isPlaying

\* C6 (as claimed): when the play() issued by the ready-to-play handler is
\* rejected, the component reports 'Failed to play audio' through onError and
\* calls stopPlayback(), so the state becomes Idle.
C6_PlayFailureReturnsToIdle ==
    lastOp = Op("playRejected", Null, "canplay") =>
        /\ Entries("onError") = <<[k |-> "onError", v |-> <<"Failed to play audio">>]>>
        /\ currentlyPlayingId = Null
        /\ ~isPlaying

\* The message the claim gives for a media error code.
ClaimedMessage(code) ==
    IF code = 1 THEN "Playback aborted"
    ELSE IF code = 2 THEN "Network error"
    ELSE IF code = 3 THEN "Audio format not supported"
    ELSE IF code = 4 THEN "Audio not available"
    ELSE "Failed to load audio"

\* C7: on every error event of the audio element the component reports
\* exactly one message, chosen by the media error code, and then calls
\* stopPlayback(), which leaves selection = none and activity = false.
C7_ErrorReportedThenStopped ==
    lastOp.name = "error" =>
        /\ Entries("onError") = <<[k |-> "onError", v |-> <<ClaimedMessage(lastOp.id)>>]>>
        /\ log[1].k = "onError"
        /\ currentlyPlayingId = Null
        /\ ~isPlaying
        /\ HandlePaused

\* C7 witness: a decode error was delivered while a clip was rendering.
C7_Witness ==
    /\ lastOp = Op("error", MEDIA_ERR_DECODE, "")
    /\ log[1].v = <<"Audio format not supported">>
    /\ Len(log) = 3
    /\ currentlyPlayingId = Null

\* C8: on the ended event with a clip selected, stopPlayback() runs first
\* (selection = none, activity = false, handle paused at position 0) and only
\* then onPlayEnd is invoked, exactly once.
C8_EndedStopsThenNotifies ==
    (lastOp.name = "ended" /\ lastOp.id # Null) =>
        /\ Entries("onPlayEnd") = <<[k |-> "onPlayEnd", v |-> <<Null, FALSE, TRUE, 0>>]>>
        /\ log[Len(log)].k = "onPlayEnd"
        /\ currentlyPlayingId = Null
        /\ ~isPlaying
        /\ HandlePaused /\ audio.currentTime = 0

\* C8 witness: the ended event of a selected clip was delivered; the handle
\* was paused and rewound before the parent was notified.
C8_Witness ==
    /\ lastOp.name = "ended" /\ lastOp.id # Null
    /\ Len(log) = 3 /\ log[1].k = "pause" /\ log[2].k = "seek" /\ log[3].k = "onPlayEnd"

\* The play or pause request of a same-id playDetection call has settled.
ToggleSettled ==
    \/ lastOp.name = "playDetection" /\ lastOp.tag = "toggle" /\ Entries("pause") # <<>>
    \/ lastOp.name = "playResolved" /\ lastOp.tag = "toggle"
    \/ lastOp.name = "playRejected" /\ lastOp.tag = "toggle"

\* C9 (as claimed): once the play or pause request of a same-id playDetection
\* call has settled, isPlaying is true exactly if the handle is not paused.
C9_ActivityMirrorsHandle ==
    ToggleSettled => (isPlaying <=> Rendering)

PausedState == Selected /\ ~isPlaying

\* C10 (as claimed): in every Paused state (selection = id, activity = false)
\* the handle is paused; that state is entered only by playDetection(id) on
\* a handle that is not paused; and no media event (ready-to-play, ended,
\* error) delivered in that state starts rendering.
C10_PausedIsSilent ==
    /\ [](PausedState => HandlePaused)
    /\ [][(~PausedState /\ PausedState') =>
            (/\ lastOp' = Op("playDetection", currentlyPlayingId, "toggle")
             /\ Rendering)]_vars
    /\ [][(PausedState /\ lastOp'.name \in {"canplay", "ended", "error"}) =>
            ~Rendering']_vars

Idle == currentlyPlayingId = Null /\ ~isPlaying

\* C11: a ready-to-play or error event of a load that was in flight when
\* stopPlayback() moved the state to Idle, delivered in Idle, makes no play
\* request and leaves selection = none and activity = false.
C11_StaleEventInIdle ==
    [][(Idle /\ lastOp'.tag = "detached") =>
          (/\ currentlyPlayingId' = Null /\ ~isPlaying'
           /\ SelectSeq(log', LAMBDA e : e.k = "play") = <<>>
           /\ (audioElement' = Null \/ audio'.paused))]_vars

\* The ready-to-play event of clip 1, whose load was cut short by
\* stopPlayback(), has been delivered in Idle.
C11_Witness ==
    /\ lastOp = Op("canplay", 1, "detached")
    /\ currentlyPlayingId = Null /\ ~isPlaying /\ mounted

\* C12: when no handle is registered (the last registerAudioElement call
\* passed null, or none was made) while selection = id, playDetection(id)
\* leaves selection = id, sets activity = true and makes no play or pause
\* request.
C12_SameIdWithoutHandle ==
    \A id \in Ids, allowed \in BOOLEAN :
        (currentlyPlayingId = id /\ audioElement = Null) =>
            LET s == playDetection(State, id, allowed)
            IN /\ s.currentlyPlayingId = id
               /\ s.isPlaying
               /\ HandleCalls(s.log) = <<>>
               /\ s.audio = audio /\ s.audioElement = Null

\* playDetection(id) was called for the selected id after the component was
\* unmounted (registerAudioElement(null) was the last registration).
C12_Witness ==
    /\ lastOp.name = "playDetection" /\ lastOp.tag = "reselect"
    /\ ~mounted /\ audioElement = Null
    /\ currentlyPlayingId = lastOp.id /\ isPlaying /\ log = <<>>

\* C13: isDetectionPlaying(id) is true exactly if id is the selection,
\* whatever the activity flag is (true for a paused selection, false for every
\* id when nothing is selected); it is a read that changes nothing.
C13_IsDetectionPlaying ==
    \A id \in Ids :
        /\ isDetectionPlaying(State, id) <=> (currentlyPlayingId = id)
        /\ isDetectionPlaying([State EXCEPT !.isPlaying = ~isPlaying], id)
              <=> isDetectionPlaying(State, id)

\* A paused selection: isDetectionPlaying is true for it and false for the
\* other id although activity is false.
C13_Witness ==
    /\ PausedState /\ audioElement # Null /\ audio.paused
    /\ isDetectionPlaying(State, currentlyPlayingId)
    /\ \E id \in Ids : ~isDetectionPlaying(State, id)

C15_UnmountReleasesHandle ==
    mounted =>
        LET s == onDestroy(State)
        IN /\ s.audioElement = Null
           /\ s.currentlyPlayingId = currentlyPlayingId
           /\ s.isPlaying = isPlaying
           /\ ~s.mounted

\* The component was unmounted while a clip was rendering: the clip stays
\* selected and active with no handle.
C15_Witness ==
    /\ lastOp.name = "unmount" /\ ~mounted
    /\ audioElement = Null /\ currentlyPlayingId # Null /\ isPlaying

\* The component update that has just run requested the load of url.
LoadIssued(url) ==
    lastOp.name = "flush" /\ Entries("load") = <<[k |-> "load", v |-> url]>>

\* C16: whenever the selection changes to an id while the component is
\* mounted, the selection stays that id until the component's update runs,
\* and the update eventually runs and requests the load of
\* '/api/v2/audio/<id>' for that id; every play request is made on an
\* element whose source is the URL of the current selection; and once the
\* update has run, an element that is rendering has that URL as its source.
C16_LoadsSelectedClip ==
    /\ (mounted /\ dirty /\ currentlyPlayingId # Null)
          ~> LoadIssued(<<"/api/v2/audio/", currentlyPlayingId>>)
    /\ [][(dirty /\ currentlyPlayingId # Null /\ lastOp'.name # "flush") =>
            (dirty' /\ currentlyPlayingId' = currentlyPlayingId)]_vars
    /\ [](Entries("play") # <<>> =>
            /\ currentlyPlayingId # Null
            /\ audio.src = <<"/api/v2/audio/", currentlyPlayingId>>)
    /\ []((Rendering /\ ~dirty) =>
            /\ currentlyPlayingId # Null
            /\ audio.src = <<"/api/v2/audio/", currentlyPlayingId>>)

\* The selection was replaced by clip 2 and the update has requested the
\* load of its URL on the element that held clip 1.
C16_Witness ==
    /\ LoadIssued(<<"/api/v2/audio/", 2>>)
    /\ currentlyPlayingId = 2 /\ audio.src = <<"/api/v2/audio/", 2>>
    /\ audio.netState = "loading" /\ audio.paused

\* A call raised: it invoked a method of the handle while no handle was
\* registered (a TypeError on null).
Raised(before, after) == before.audioElement = Null /\ HandleCalls(after.log) # <<>>

\* C18: in every reachable state (handle registered or not, play() allowed
\* or rejected) playDetection and stopPlayback return without raising, and
\* every play() promise they leave rejected is one with a catch callback
\* attached, so the rejection reaches no caller.
C18_NoErrorEscapes ==
    /\ ~Raised(State, stopPlayback(State))
    /\ stopPlayback(State).rejections \subseteq {"canplay", "toggle"}
    /\ \A id \in Ids, allowed \in BOOLEAN :
          LET s == playDetection(State, id, allowed)
          IN /\ ~Raised(State, s)
             /\ s.rejections \subseteq {"canplay", "toggle"}
             /\ catchToggle(s) = s
    /\ \A origin \in rejections : ENABLED PlayRejected(origin)

\* playDetection resumed a paused clip, the browser rejected play(), and the
\* rejection is waiting for its catch callback; the call itself returned
\* with activity = true.
C18_Witness ==
    /\ lastOp.name = "playDetection" /\ lastOp.tag = "toggle"
    /\ "toggle" \in rejections /\ isPlaying /\ audio.paused
    /\ Entries("play") # <<>>

\* C19 (as claimed): an error event that originates from a previously
\* selected clip id1 and is delivered after playDetection(id2), id2 # id1,
\* has replaced the selection does not clear the selection or the activity
\* of id2.
C19_StaleEventKeepsSelection ==
    [][(/\ lastOp'.name = "error" /\ lastOp'.tag = "detached"
        /\ currentlyPlayingId # Null /\ detached # currentlyPlayingId) =>
          (/\ currentlyPlayingId' = currentlyPlayingId
           /\ isPlaying' = isPlaying)]_vars

\* C17: registerAudioElement(h) replaces the held handle by h whatever was
\* held before and changes nothing else (selection and activity included);
\* with several component instances the held handle is always the argument of
\* the most recent register call, also when that call was the
\* registerAudioElement(null) of an instance that unmounted while another
\* instance is still mounted with its element.
C17_LastWriterWins ==
    /\ \A h \in Binders \cup {Null} :
          registerAudioElement(State, h) = [State EXCEPT !.audioElement = h]
    /\ audioElement = registered
    /\ (lastOp.name = "unmount" /\ lastOp.tag = "binder") => audioElement = Null

\* Instance 1 has unmounted while instance 2 is mounted with its element and
\* a clip is selected and active: no handle is held.
C17_Witness ==
    /\ lastOp = Op("unmount", 1, "binder")
    /\ binders[2].mounted /\ binders[2].hasRef /\ ~binders[2].dirty
    /\ audioElement = Null
    /\ currentlyPlayingId # Null /\ isPlaying

\* C20 (as claimed): on the security settings page every saveSettings call
\* is issued either while the store holds no authentication change against
\* the last confirmed settings, or by saveAuthSettings with changes that pass
\* validation; the debounced server-config auto-save never sends unconfirmed
\* or invalid authentication settings.
C20_AuthSavedOnlyManually ==
    \A i \in 1..Len(log) :
        log[i].k = "saveSettings" =>
            \/ ~log[i].v[2]
            \/ log[i].v[1] = "saveAuthSettings" /\ log[i].v[3]

\* C21: on an auto-save page at most one save timer is pending, a save timer
\* is pending exactly while a burst of edits is open, every saveSettings call
\* started by a timer closes one burst, and an open burst is always closed.
C21_OneSavePerBurst ==
    /\ [](/\ autosave.saveTimers <= 1
          /\ autosave.saveTimers = 1 <=> autosave.burst > 0
          /\ autosave.calls = autosave.bursts)
    /\ [][lastOp'.name = "autoSavePage" /\ lastOp'.tag = "edit"
            => Len(log') = 0 /\ autosave'.calls = autosave.calls]_vars
    /\ (autosave.burst > 0) ~> (autosave.burst = 0)

\* A burst of at least two edits on a page that is still mounted was closed
\* by its only saveSettings call.
C21_Witness ==
    /\ ~autosave.destroyed
    /\ autosave.edits >= 2
    /\ autosave.bursts = 1
    /\ autosave.calls = 1
    /\ autosave.burst = 0
    /\ lastOp = Op("autoSavePage", Null, "saveTimer")

\* C22: while an auto-save page is mounted, saveStatus is 'idle' only when no
\* save timer is pending and no saveSettings call is in flight.
C22_IdleOnlyWhenSaved ==
    (autosave.kind # "none" /\ ~autosave.destroyed /\ autosave.saveStatus = "idle")
        => autosave.saveTimers = 0 /\ autosave.inFlight = 0

\* C23: on the main settings page, while it is mounted, saveStatus 'error' is
\* never changed to 'idle' or 'saved' by a timer.
C23_ErrorSurvivesTimers ==
    [][(/\ autosave.kind = "main"
        /\ ~autosave.destroyed
        /\ autosave.saveStatus = "error"
        /\ lastOp'.name = "autoSavePage"
        /\ lastOp'.tag \in {"saveTimer", "statusTimer"})
          => autosave'.saveStatus \notin {"idle", "saved"}]_vars

\* C24: on the main settings page, once the component is destroyed, no timer
\* scheduled before the unmount fires: none starts a saveSettings call and
\* none changes saveStatus.
C24_NoTimerAfterDestroy ==
    [][(/\ autosave.kind = "main"
        /\ autosave.destroyed
        /\ lastOp'.name = "autoSavePage"
        /\ lastOp'.tag \in {"saveTimer", "statusTimer"})
          => Len(log') = 0 /\ autosave'.saveStatus = autosave.saveStatus]_vars

\* C25: on the dashboard at most one request for detections is in flight, an
\* append request only while loadingMore; while loadingMore is true
\* loadDetections, loadMore and the sentinel callback start nothing; while
\* the initial load runs the sentinel callback starts nothing and neither the
\* sentinel nor the Retry button is rendered; and no intersection or Retry
\* click in either state starts a request.
C25_OneAppendInFlight ==
    /\ [](/\ Len(dashboard.requests) <= 1
          /\ \A i \in 1..Len(dashboard.requests) :
                dashboard.requests[i].append => dashboard.loadingMore
          /\ dashboard.loadingMore =>
                /\ loadDetections(dashboard, TRUE) = dashboard
                /\ loadDetections(dashboard, FALSE) = dashboard
                /\ loadMore(dashboard) = dashboard
                /\ sentinelCallback(dashboard) = dashboard
          /\ dashboard.detectionsLoading =>
                /\ sentinelCallback(dashboard) = dashboard
                /\ ~SentinelShown(dashboard) /\ ~RetryShown(dashboard))
    /\ [][(/\ dashboard.loadingMore \/ dashboard.detectionsLoading
           /\ lastOp'.name = "dashboard"
           /\ lastOp'.tag \in {"intersect", "retry"})
             => Len(log') = 0 /\ dashboard'.requests = dashboard.requests]_vars

\* The sentinel came into view while an append request was in flight and
\* started nothing.
C25_Witness ==
    /\ lastOp = Op("dashboard", Null, "intersect")
    /\ Len(log) = 0
    /\ dashboard.loadingMore
    /\ Len(dashboard.requests) = 1
    /\ dashboard.requests[1].append

\* C26: with a fixed result set and requests that all succeed, the loaded
\* detections are always a prefix of the backend's list, every append request
\* uses the number of loaded detections as its offset, no request is issued
\* once detections.length >= totalDetections, and after the mount the list
\* eventually equals the backend's list with no request left in flight.
C26_PagingConverges ==
    /\ [](dashboard.detections =
            SubSeq(dashboard.backend, 1, Len(dashboard.detections)))
    /\ [][\A i \in 1..Len(log') :
            (log'[i].k = "fetch" /\ log'[i].v[1])
                => log'[i].v[2] = Len(dashboard.detections)]_vars
    /\ [][(/\ dashboard.mounted
           /\ Len(dashboard.detections) >= dashboard.totalDetections)
             => Len(log') = 0]_vars
    /\ dashboard.mounted ~>
          [](dashboard.detections = dashboard.backend /\ dashboard.requests = <<>>)

\* A result set of three pages has been loaded completely, the last page by
\* an append request.
C26_Witness ==
    /\ Len(dashboard.backend) > 2 * PAGE_SIZE
    /\ dashboard.detections = dashboard.backend
    /\ dashboard.totalDetections = Len(dashboard.backend)
    /\ dashboard.requests = <<>>
    /\ lastOp = Op("dashboard", Null, "response")

\* C27: a failed fetch sets detectionsError and leaves detectionsLoading and
\* loadingMore false; a failed append request leaves detections and
\* totalDetections as they were; and whenever detectionsError is set the Retry
\* button is rendered, nothing is in flight and its loadDetections() call
\* starts a request for the first page.
C27_FailureIsRecoverable ==
    /\ [][(lastOp'.name = "dashboard" /\ lastOp'.tag = "failure")
            => /\ dashboard'.detectionsError
               /\ ~dashboard'.detectionsLoading
               /\ ~dashboard'.loadingMore
               /\ Len(dashboard'.requests) = Len(dashboard.requests) - 1
               /\ (\A i \in 1..Len(dashboard.requests) : dashboard.requests[i].append)
                     => /\ dashboard'.detections = dashboard.detections
                        /\ dashboard'.totalDetections = dashboard.totalDetections]_vars
    /\ [](dashboard.detectionsError
            => /\ RetryShown(dashboard)
               /\ dashboard.requests = <<>>
               /\ loadDetections(dashboard, FALSE).requests
                     = <<[append |-> FALSE, offset |-> 0]>>)

\* An append request has failed with a page already loaded.
C27_Witness ==
    /\ lastOp = Op("dashboard", Null, "failure")
    /\ dashboard.detectionsError
    /\ Len(dashboard.detections) = PAGE_SIZE
    /\ dashboard.totalDetections > PAGE_SIZE

\* C28: the loaded detections list never contains the same detection id twice.
C28_NoDuplicateIds ==
    \A i, j \in 1..Len(dashboard.detections) :
        i # j => dashboard.detections[i] # dashboard.detections[j]

\* C29: on the support page generateSupportDump with uploadToSentry on and an
\* empty issue number sends nothing, shows an error with progress 0 and
\* leaves generating false; every other run sends one request with
\* generating true, generating stays true exactly while the request is in
\* flight, and it is false after every outcome.
C29_GeneratingBracketsRequest ==
    /\ []((support.uploadToSentry /\ support.githubIssueNumber = "")
            => LET s == generateSupportDump(support)
               IN  /\ s.inFlight = support.inFlight
                   /\ s.dumps = support.dumps
                   /\ s.statusType = "error"
                   /\ s.progressPercent = 0
                   /\ ~s.generating)
    /\ [](support.generating <=> support.inFlight)
    /\ [][(lastOp'.name = "supportPage" /\ lastOp'.tag = "generate")
            => /\ support'.generating
               /\ support'.inFlight
               /\ Len(log') = 1]_vars
    /\ [][(lastOp'.name = "supportPage" /\ lastOp'.tag \in Outcomes)
            => ~support'.generating /\ ~support'.inFlight]_vars

\* A request that ended in a thrown exception has left generating false.
C29_Witness ==
    /\ lastOp = Op("supportPage", Null, "exception")
    /\ support.dumps >= 1
    /\ ~support.generating
    /\ support.statusType = "error"
    /\ support.progressPercent = 0

\* The largest whole number that is at most L / 2.
HalfRoundedDown(L) == CHOOSE m \in 0..L : 2 * m <= L /\ L < 2 * m + 2

\* C30: after updateExportLength(L) the stored export length is L and the
\* stored preCapture is at most floor(L / 2): a preCapture above floor(L / 2)
\* is replaced by floor(L / 2), a preCapture within the bound is kept.
C30_PreCaptureBounded ==
    /\ [](\A L \in 0..MaxLength :
            LET a == updateExportLength(audioSettings, L)
            IN  /\ a.length = L
                /\ a.preCapture <= HalfRoundedDown(L)
                /\ a.preCapture = IF audioSettings.preCapture > HalfRoundedDown(L)
                                  THEN HalfRoundedDown(L)
                                  ELSE audioSettings.preCapture)
    /\ [][lastOp'.name = "updateExportLength"
            => /\ audioSettings'.length = lastOp'.id
               /\ audioSettings'.preCapture <= HalfRoundedDown(lastOp'.id)
               /\ lastOp'.tag = "within"
                     => audioSettings'.preCapture = audioSettings.preCapture
               /\ lastOp'.tag = "above"
                     => audioSettings'.preCapture = HalfRoundedDown(lastOp'.id)]_vars

\* An odd length was set below twice the stored preCapture, which was cut to
\* the rounded-down half.
C30_Witness ==
    /\ lastOp = Op("updateExportLength", 5, "above")
    /\ audioSettings.length = 5
    /\ audioSettings.preCapture = 2

====
